---- MODULE Spec2Model ----
(***************************************************************************)
(* The command router of timesearch (timesearch_modules/__init__.py):      *)
(* module construction, alias resolution, the three dispatcher branches of *)
(* main(argv), the argparse parser built at import time, and the lazy      *)
(* gateways that load a command's implementation only when it is called.   *)
(*                                                                         *)
(* A string is a sequence of one-character strings, so that str.lower(),   *)
(* str.startswith() and equality are computed character by character.      *)
(***************************************************************************)
EXTENDS Integers, Sequences, FiniteSets, TLC

\* Bound on the number of tokens that follow the command in argv (Spec).
MaxArgs == 4
\* The same bound for the two-invocation specification (SpecPair).
MaxArgsPair == 3

----------------------------------------------------------------------------
\* Python values held in the argparse namespace and returned by calls.
PyNone == <<"None">>
PyStr(s) == <<"str", s>>
PyBool(b) == <<"bool", b>>
PyInt(n) == <<"int", n>>

\* str.lower(), restricted to ASCII letters.
UpperChars ==
    <<"A", "B", "C", "D", "E", "F", "G", "H", "I", "J", "K", "L", "M",
      "N", "O", "P", "Q", "R", "S", "T", "U", "V", "W", "X", "Y", "Z">>
LowerChars ==
    <<"a", "b", "c", "d", "e", "f", "g", "h", "i", "j", "k", "l", "m",
      "n", "o", "p", "q", "r", "s", "t", "u", "v", "w", "x", "y", "z">>
LowerChar(c) ==
    IF \E i \in DOMAIN UpperChars : UpperChars[i] = c
    THEN LowerChars[CHOOSE i \in DOMAIN UpperChars : UpperChars[i] = c]
    ELSE c
UpperChar(c) ==
    IF \E i \in DOMAIN LowerChars : LowerChars[i] = c
    THEN UpperChars[CHOOSE i \in DOMAIN LowerChars : LowerChars[i] = c]
    ELSE c
lower(s) == [i \in 1..Len(s) |-> LowerChar(s[i])]
upper(s) == [i \in 1..Len(s) |-> UpperChar(s[i])]
capitalize(s) == [i \in 1..Len(s) |-> IF i = 1 THEN UpperChar(s[i]) ELSE LowerChar(s[i])]
\* str.startswith()
startswith(s, prefix) ==
    /\ Len(prefix) <= Len(s)
    /\ \A i \in 1..Len(prefix) : s[i] = prefix[i]

----------------------------------------------------------------------------
\* The strings of the source: command names, aliases, option strings.
tok_breakdown == <<"b", "r", "e", "a", "k", "d", "o", "w", "n">>
tok_get_comments == <<"g", "e", "t", "_", "c", "o", "m", "m", "e", "n", "t", "s">>
tok_commentaugment == <<"c", "o", "m", "m", "e", "n", "t", "a", "u", "g", "m", "e", "n", "t">>
tok_getstyles == <<"g", "e", "t", "s", "t", "y", "l", "e", "s">>
tok_getwiki == <<"g", "e", "t", "w", "i", "k", "i">>
tok_livestream == <<"l", "i", "v", "e", "s", "t", "r", "e", "a", "m">>
tok_mergedb == <<"m", "e", "r", "g", "e", "d", "b">>
tok_offline_reading == <<"o", "f", "f", "l", "i", "n", "e", "_", "r", "e", "a", "d", "i", "n", "g">>
tok_index == <<"i", "n", "d", "e", "x">>
tok_redmash == <<"r", "e", "d", "m", "a", "s", "h">>
tok_get_submissions == <<"g", "e", "t", "_", "s", "u", "b", "m", "i", "s", "s", "i", "o", "n", "s">>
tok_timesearch == <<"t", "i", "m", "e", "s", "e", "a", "r", "c", "h">>
dash_h == <<"-", "h">>
ddash_help == <<"-", "-", "h", "e", "l", "p">>
ddash_sort == <<"-", "-", "s", "o", "r", "t">>
dash_r == <<"-", "r">>
ddash_subreddit == <<"-", "-", "s", "u", "b", "r", "e", "d", "d", "i", "t">>
dash_u == <<"-", "u">>
ddash_user == <<"-", "-", "u", "s", "e", "r">>
dash_s == <<"-", "s">>
ddash_specific == <<"-", "-", "s", "p", "e", "c", "i", "f", "i", "c">>
dash_v == <<"-", "v">>
ddash_verbose == <<"-", "-", "v", "e", "r", "b", "o", "s", "e">>
ddash_dont_supplement == <<"-", "-", "d", "o", "n", "t", "_", "s", "u", "p", "p", "l", "e", "m", "e", "n", "t">>
dash_l == <<"-", "l">>
ddash_lower == <<"-", "-", "l", "o", "w", "e", "r">>
tok_update == <<"u", "p", "d", "a", "t", "e">>
dash_up == <<"-", "u", "p">>
ddash_upper == <<"-", "-", "u", "p", "p", "e", "r">>
dash_1 == <<"-", "1">>
ddash_once == <<"-", "-", "o", "n", "c", "e">>
dash_c == <<"-", "c">>
ddash_comments == <<"-", "-", "c", "o", "m", "m", "e", "n", "t", "s">>
ddash_limit == <<"-", "-", "l", "i", "m", "i", "t">>
ddash_submissions == <<"-", "-", "s", "u", "b", "m", "i", "s", "s", "i", "o", "n", "s">>
dash_w == <<"-", "w">>
ddash_wait == <<"-", "-", "w", "a", "i", "t">>
ddash_from == <<"-", "-", "f", "r", "o", "m">>
ddash_to == <<"-", "-", "t", "o">>
ddash_all == <<"-", "-", "a", "l", "l">>
ddash_author == <<"-", "-", "a", "u", "t", "h", "o", "r">>
ddash_date == <<"-", "-", "d", "a", "t", "e">>
ddash_flair == <<"-", "-", "f", "l", "a", "i", "r">>
ddash_html == <<"-", "-", "h", "t", "m", "l">>
ddash_score == <<"-", "-", "s", "c", "o", "r", "e">>
ddash_sub == <<"-", "-", "s", "u", "b">>
ddash_title == <<"-", "-", "t", "i", "t", "l", "e">>
ddash_offline == <<"-", "-", "o", "f", "f", "l", "i", "n", "e">>
dash_st == <<"-", "s", "t">>
ddash_score_threshold == <<"-", "-", "s", "c", "o", "r", "e", "_", "t", "h", "r", "e", "s", "h", "o", "l", "d">>

\* Strings that only occur in argument vectors.
tok_empty == <<>>
tok_help == <<"h", "e", "l", "p">>
tok_test == <<"t", "e", "s", "t">>
tok_bogus == <<"b", "o", "g", "u", "s">>
tok_HELP == <<"H", "E", "L", "P">>
tok_Get_Submissions == <<"G", "e", "t", "_", "S", "u", "b", "m", "i", "s", "s", "i", "o", "n", "s">>
tok_Bogus == <<"B", "o", "g", "u", "s">>

----------------------------------------------------------------------------
\* The subparsers built at import time (lines 342-410): add_parser's name,
\* every add_argument (with argparse's implicit -h/--help), set_defaults(func).
p_breakdown ==
    [prog |-> tok_breakdown, func |-> "breakdown_gateway",
     options |-> <<
        [flags |-> {dash_h, ddash_help}, dest |-> "help", action |-> "help", default |-> PyNone, required |-> FALSE],
        [flags |-> {ddash_sort}, dest |-> "sort", action |-> "store", default |-> PyNone, required |-> FALSE],
        [flags |-> {dash_r, ddash_subreddit}, dest |-> "subreddit", action |-> "store", default |-> PyNone, required |-> FALSE],
        [flags |-> {dash_u, ddash_user}, dest |-> "username", action |-> "store", default |-> PyNone, required |-> FALSE]>>]
p_get_comments ==
    [prog |-> tok_get_comments, func |-> "get_comments_gateway",
     options |-> <<
        [flags |-> {dash_h, ddash_help}, dest |-> "help", action |-> "help", default |-> PyNone, required |-> FALSE],
        [flags |-> {dash_r, ddash_subreddit}, dest |-> "subreddit", action |-> "store", default |-> PyNone, required |-> FALSE],
        [flags |-> {dash_s, ddash_specific}, dest |-> "specific_submission", action |-> "store", default |-> PyNone, required |-> FALSE],
        [flags |-> {dash_u, ddash_user}, dest |-> "username", action |-> "store", default |-> PyNone, required |-> FALSE],
        [flags |-> {dash_v, ddash_verbose}, dest |-> "verbose", action |-> "store_true", default |-> PyBool(FALSE), required |-> FALSE],
        [flags |-> {ddash_dont_supplement}, dest |-> "do_supplement", action |-> "store_false", default |-> PyBool(TRUE), required |-> FALSE],
        [flags |-> {dash_l, ddash_lower}, dest |-> "lower", action |-> "store", default |-> PyStr(tok_update), required |-> FALSE],
        [flags |-> {dash_up, ddash_upper}, dest |-> "upper", action |-> "store", default |-> PyNone, required |-> FALSE]>>]
p_getstyles ==
    [prog |-> tok_getstyles, func |-> "getstyles_gateway",
     options |-> <<
        [flags |-> {dash_h, ddash_help}, dest |-> "help", action |-> "help", default |-> PyNone, required |-> FALSE],
        [flags |-> {dash_r, ddash_subreddit}, dest |-> "subreddit", action |-> "store", default |-> PyNone, required |-> FALSE]>>]
p_getwiki ==
    [prog |-> tok_getwiki, func |-> "getwiki_gateway",
     options |-> <<
        [flags |-> {dash_h, ddash_help}, dest |-> "help", action |-> "help", default |-> PyNone, required |-> FALSE],
        [flags |-> {dash_r, ddash_subreddit}, dest |-> "subreddit", action |-> "store", default |-> PyNone, required |-> FALSE]>>]
p_livestream ==
    [prog |-> tok_livestream, func |-> "livestream_gateway",
     options |-> <<
        [flags |-> {dash_h, ddash_help}, dest |-> "help", action |-> "help", default |-> PyNone, required |-> FALSE],
        [flags |-> {dash_1, ddash_once}, dest |-> "once", action |-> "store_true", default |-> PyBool(FALSE), required |-> FALSE],
        [flags |-> {dash_c, ddash_comments}, dest |-> "comments", action |-> "store_true", default |-> PyBool(FALSE), required |-> FALSE],
        [flags |-> {dash_l, ddash_limit}, dest |-> "limit", action |-> "store", default |-> PyNone, required |-> FALSE],
        [flags |-> {dash_r, ddash_subreddit}, dest |-> "subreddit", action |-> "store", default |-> PyNone, required |-> FALSE],
        [flags |-> {dash_s, ddash_submissions}, dest |-> "submissions", action |-> "store_true", default |-> PyBool(FALSE), required |-> FALSE],
        [flags |-> {dash_u, ddash_user}, dest |-> "username", action |-> "store", default |-> PyNone, required |-> FALSE],
        [flags |-> {dash_v, ddash_verbose}, dest |-> "verbose", action |-> "store_true", default |-> PyBool(FALSE), required |-> FALSE],
        [flags |-> {dash_w, ddash_wait}, dest |-> "sleepy", action |-> "store", default |-> PyInt(30), required |-> FALSE]>>]
p_mergedb ==
    [prog |-> tok_mergedb, func |-> "mergedb_gateway",
     options |-> <<
        [flags |-> {dash_h, ddash_help}, dest |-> "help", action |-> "help", default |-> PyNone, required |-> FALSE],
        [flags |-> {ddash_from}, dest |-> "from_db_path", action |-> "store", default |-> PyNone, required |-> TRUE],
        [flags |-> {ddash_to}, dest |-> "to_db_path", action |-> "store", default |-> PyNone, required |-> TRUE]>>]
p_offline_reading ==
    [prog |-> tok_offline_reading, func |-> "offline_reading_gateway",
     options |-> <<
        [flags |-> {dash_h, ddash_help}, dest |-> "help", action |-> "help", default |-> PyNone, required |-> FALSE],
        [flags |-> {dash_r, ddash_subreddit}, dest |-> "subreddit", action |-> "store", default |-> PyNone, required |-> FALSE],
        [flags |-> {dash_s, ddash_specific}, dest |-> "specific_submission", action |-> "store", default |-> PyNone, required |-> FALSE],
        [flags |-> {dash_u, ddash_user}, dest |-> "username", action |-> "store", default |-> PyNone, required |-> FALSE]>>]
p_index ==
    [prog |-> tok_index, func |-> "index_gateway",
     options |-> <<
        [flags |-> {dash_h, ddash_help}, dest |-> "help", action |-> "help", default |-> PyNone, required |-> FALSE],
        [flags |-> {ddash_all}, dest |-> "do_all", action |-> "store_true", default |-> PyBool(FALSE), required |-> FALSE],
        [flags |-> {ddash_author}, dest |-> "do_author", action |-> "store_true", default |-> PyBool(FALSE), required |-> FALSE],
        [flags |-> {ddash_date}, dest |-> "do_date", action |-> "store_true", default |-> PyBool(FALSE), required |-> FALSE],
        [flags |-> {ddash_flair}, dest |-> "do_flair", action |-> "store_true", default |-> PyBool(FALSE), required |-> FALSE],
        [flags |-> {ddash_html}, dest |-> "html", action |-> "store_true", default |-> PyBool(FALSE), required |-> FALSE],
        [flags |-> {ddash_score}, dest |-> "do_score", action |-> "store_true", default |-> PyBool(FALSE), required |-> FALSE],
        [flags |-> {ddash_sub}, dest |-> "do_subreddit", action |-> "store_true", default |-> PyBool(FALSE), required |-> FALSE],
        [flags |-> {ddash_title}, dest |-> "do_title", action |-> "store_true", default |-> PyBool(FALSE), required |-> FALSE],
        [flags |-> {ddash_offline}, dest |-> "offline", action |-> "store_true", default |-> PyBool(FALSE), required |-> FALSE],
        [flags |-> {dash_r, ddash_subreddit}, dest |-> "subreddit", action |-> "store", default |-> PyNone, required |-> FALSE],
        [flags |-> {dash_st, ddash_score_threshold}, dest |-> "score_threshold", action |-> "store", default |-> PyInt(0), required |-> FALSE],
        [flags |-> {dash_u, ddash_user}, dest |-> "username", action |-> "store", default |-> PyNone, required |-> FALSE]>>]
p_get_submissions ==
    [prog |-> tok_get_submissions, func |-> "get_submissions_gateway",
     options |-> <<
        [flags |-> {dash_h, ddash_help}, dest |-> "help", action |-> "help", default |-> PyNone, required |-> FALSE],
        [flags |-> {dash_l, ddash_lower}, dest |-> "lower", action |-> "store", default |-> PyStr(tok_update), required |-> FALSE],
        [flags |-> {dash_r, ddash_subreddit}, dest |-> "subreddit", action |-> "store", default |-> PyNone, required |-> FALSE],
        [flags |-> {dash_u, ddash_user}, dest |-> "username", action |-> "store", default |-> PyNone, required |-> FALSE],
        [flags |-> {dash_up, ddash_upper}, dest |-> "upper", action |-> "store", default |-> PyNone, required |-> FALSE],
        [flags |-> {dash_v, ddash_verbose}, dest |-> "verbose", action |-> "store_true", default |-> PyBool(FALSE), required |-> FALSE],
        [flags |-> {ddash_dont_supplement}, dest |-> "do_supplement", action |-> "store_false", default |-> PyBool(TRUE), required |-> FALSE]>>]

\* Mutant of name_parser_map: add_parser without aliases=.
name_parser_map_noaliases ==
    { <<tok_breakdown, p_breakdown>>,
      <<tok_get_comments, p_get_comments>>,
      <<tok_getstyles, p_getstyles>>,
      <<tok_getwiki, p_getwiki>>,
      <<tok_livestream, p_livestream>>,
      <<tok_mergedb, p_mergedb>>,
      <<tok_offline_reading, p_offline_reading>>,
      <<tok_index, p_index>>,
      <<tok_get_submissions, p_get_submissions>> }

\* subparsers._name_parser_map: add_parser registers the name and each alias
\* for the same parser object.
name_parser_map ==
    { <<tok_breakdown, p_breakdown>>,
      <<tok_get_comments, p_get_comments>>,
      <<tok_commentaugment, p_get_comments>>,
      <<tok_getstyles, p_getstyles>>,
      <<tok_getwiki, p_getwiki>>,
      <<tok_livestream, p_livestream>>,
      <<tok_mergedb, p_mergedb>>,
      <<tok_offline_reading, p_offline_reading>>,
      <<tok_index, p_index>>,
      <<tok_redmash, p_index>>,
      <<tok_get_submissions, p_get_submissions>>,
      <<tok_timesearch, p_get_submissions>> }

\* The module each gateway imports when it is called (lines 302-336).
gateway_module ==
    [ breakdown_gateway |-> tok_breakdown,
      get_comments_gateway |-> tok_get_comments,
      getstyles_gateway |-> tok_getstyles,
      getwiki_gateway |-> tok_getwiki,
      livestream_gateway |-> tok_livestream,
      mergedb_gateway |-> tok_mergedb,
      offline_reading_gateway |-> tok_offline_reading,
      index_gateway |-> tok_index,
      get_submissions_gateway |-> tok_get_submissions ]

----------------------------------------------------------------------------
\* argparse, as far as parser.parse_args(argv) of line 433 uses it.  The
\* argument vectors considered hold no '=', no blank, no '--' and no
\* negative number, so those rules of argparse are left out.

\* ArgumentParser._parse_optional: "A" a positional string, "O" an option
\* string (opt = 0: an option no add_argument declared), "ambiguous" an
\* abbreviation of several option strings.
parse_optional(p, t) ==
    IF t = <<>> \/ Head(t) # "-"
    THEN [kind |-> "A", opt |-> 0]
    ELSE LET exact == {i \in DOMAIN p.options : t \in p.options[i].flags}
             abbrev == {x \in UNION {{<<i, f>> : f \in p.options[i].flags} :
                                      i \in DOMAIN p.options} :
                          startswith(x[2], t)}
         IN  IF exact # {} THEN [kind |-> "O", opt |-> CHOOSE i \in exact : TRUE]
             ELSE IF Len(t) = 1 THEN [kind |-> "A", opt |-> 0]
             ELSE IF Cardinality(abbrev) > 1 THEN [kind |-> "ambiguous", opt |-> 0]
             ELSE IF Cardinality(abbrev) = 1
                  THEN [kind |-> "O", opt |-> (CHOOSE x \in abbrev : TRUE)[1]]
             ELSE [kind |-> "O", opt |-> 0]

\* What parse_args yields: a namespace, or SystemExit(code) after printing
\* to a stream.
ParseOk(ns) ==
    [status |-> "ok", code |-> 0, namespace |-> ns, stream |-> "", text |-> <<>>]
ParseExit(code, stream, text) ==
    [status |-> "exit", code |-> code, namespace |-> <<>>, stream |-> stream,
     text |-> text]
\* ArgumentParser.error: usage and message to stderr, exit status 2.
parser_error(prog, message) ==
    ParseExit(2, "stderr", <<"usage", prog, message>>)
\* _HelpAction: print_help to stdout, exit status 0.
parser_help(prog) ==
    ParseExit(0, "stdout", <<"help", prog>>)

\* Mutant of default_namespace: add_argument's default= is ignored.
default_namespace_none(p) ==
    LET stored == {i \in DOMAIN p.options : p.options[i].action # "help"}
        dests == {p.options[i].dest : i \in stored}
    IN  [d \in dests \cup {"func"} |->
            IF d = "func" THEN <<"func", p.func>> ELSE PyNone]

\* The namespace before any argument is consumed: every option's default,
\* then the parser-level default func.
default_namespace(p) ==
    LET stored == {i \in DOMAIN p.options : p.options[i].action # "help"}
        dests == {p.options[i].dest : i \in stored}
    IN  [d \in dests \cup {"func"} |->
            IF d = "func" THEN <<"func", p.func>>
            ELSE p.options[CHOOSE i \in stored : p.options[i].dest = d].default]

\* The consume loop of _parse_known_args over the subcommand's arguments,
\* and the checks that follow it.
RECURSIVE consume(_, _, _, _, _, _)
consume(p, toks, i, ns, seen, extras) ==
    IF i > Len(toks)
    THEN IF \E k \in DOMAIN p.options :
               p.options[k].required /\ p.options[k].dest \notin seen
         THEN parser_error(p.prog, "the following arguments are required")
         ELSE IF extras # <<>>
         THEN parser_error(<<>>, "unrecognized arguments")
         ELSE ParseOk(ns)
    ELSE LET m == parse_optional(p, toks[i])
         IN  IF m.kind = "A" \/ m.opt = 0
             THEN consume(p, toks, i + 1, ns, seen, Append(extras, toks[i]))
             ELSE LET o == p.options[m.opt]
                  IN  CASE o.action = "help" -> parser_help(p.prog)
                        [] o.action = "store" ->
                            IF /\ i + 1 <= Len(toks)
                               /\ parse_optional(p, toks[i + 1]).kind = "A"
                            THEN consume(p, toks, i + 2,
                                         [ns EXCEPT ![o.dest] = PyStr(toks[i + 1])],
                                         seen \cup {o.dest}, extras)
                            ELSE parser_error(p.prog, "expected one argument")
                        [] o.action = "store_true" ->
                            consume(p, toks, i + 1,
                                    [ns EXCEPT ![o.dest] = PyBool(TRUE)],
                                    seen \cup {o.dest}, extras)
                        [] o.action = "store_false" ->
                            consume(p, toks, i + 1,
                                    [ns EXCEPT ![o.dest] = PyBool(FALSE)],
                                    seen \cup {o.dest}, extras)

\* A subparser's parse_known_args: every string is classified first (an
\* ambiguous abbreviation is an error there), then consumed left to right.
subparser_parse(p, toks) ==
    IF \E i \in DOMAIN toks : parse_optional(p, toks[i]).kind = "ambiguous"
    THEN parser_error(p.prog, "ambiguous option")
    ELSE consume(p, toks, 1, default_namespace(p), {}, <<>>)

\* parser.parse_args(argv) for an argv whose first string is a positional:
\* the subparsers action checks it against its choices, compared as given,
\* and hands the remaining strings to that subparser.
parse_args(av) ==
    IF \E x \in name_parser_map : x[1] = av[1]
    THEN subparser_parse((CHOOSE x \in name_parser_map : x[1] = av[1])[2], Tail(av))
    ELSE parser_error(<<>>, "invalid choice")

----------------------------------------------------------------------------
\* A Python dict literal, and dict.get(key, default).
Dict(pairs) ==
    [k \in {x[1] : x \in pairs} |-> (CHOOSE x \in pairs : x[1] = k)[2]]
dict_get(d, key, default) ==
    IF key \in DOMAIN d THEN d[key] ELSE default

\* MODULE_DOCSTRINGS as the dict literal of lines 43-266 builds it; a help
\* text is represented by its title line.
MODULE_DOCSTRINGS_literal ==
    Dict({ <<tok_breakdown, "breakdown:">>,
           <<tok_get_comments, "get_comments:">>,
           <<tok_getstyles, "getstyles:">>,
           <<tok_getwiki, "getwiki:">>,
           <<tok_mergedb, "mergedb:">>,
           <<tok_livestream, "livestream:">>,
           <<tok_offline_reading, "offline_reading:">>,
           <<tok_index, "index:">>,
           <<tok_get_submissions, "get_submissions:">> })

OLD_COMMAND_ALIASES_literal ==
    Dict({ <<tok_timesearch, tok_get_submissions>>,
           <<tok_commentaugment, tok_get_comments>>,
           <<tok_redmash, tok_index>> })

\* The global help document after DOCSTRING.format(**docstring_headers).
DOCSTRING == "DOCSTRING"

listget(li, index, fallback) ==
    IF index + 1 \in DOMAIN li THEN li[index + 1] ELSE fallback

\* Mutants of helpstrings: the dash spellings forgotten; the empty string
\* forgotten.
helpstrings_no_dash == {tok_empty, tok_help}
helpstrings_no_empty == {tok_help, dash_h, ddash_help}
helpstrings == {tok_empty, tok_help, dash_h, ddash_help}

NoteNoCommand ==
    <<"You are seeing the default help text because you did not choose a command.">>
NoteNotRecognized(cmd) ==
    <<"You are seeing the default help text because \"%s\" was not recognized", cmd>>
HintLine == "Have you used any of the other utilities to collect data?"

\* Mutant of ImportedAtLoad: a command module imported at the top of the file.
ImportedAtLoad_eager ==
    {<<"a", "r", "g", "p", "a", "r", "s", "e">>, <<"s", "y", "s">>,
     <<"e", "x", "c", "e", "p", "t", "i", "o", "n", "s">>, tok_get_submissions}
\* The modules in sys.modules once the package is imported (lines 1-4).
ImportedAtLoad == {<<"a", "r", "g", "p", "a", "r", "s", "e">>, <<"s", "y", "s">>,
                   <<"e", "x", "c", "e", "p", "t", "i", "o", "n", "s">>}

----------------------------------------------------------------------------
\* The argument vectors a run is started with.
FirstTokens ==
    {tok_breakdown, tok_get_comments, tok_getstyles, tok_getwiki, tok_livestream,
     tok_mergedb, tok_offline_reading, tok_index, tok_get_submissions,
     tok_timesearch, tok_commentaugment, tok_redmash}
      \cup {tok_empty, tok_help, tok_HELP, dash_h, ddash_help, tok_bogus, tok_Bogus,
            tok_Get_Submissions}
SecondTokens ==
    {tok_empty, tok_help, tok_HELP, ddash_help, dash_h,
     dash_r, dash_v, ddash_from, ddash_to, tok_test}
ArgTokens == {dash_r, dash_v, ddash_from, ddash_to, dash_h, tok_test}

SeqsUpTo(S, n) == UNION {[1..k -> S] : k \in 0..n}
Rests(n) ==
    {<<>>} \cup
    (IF n = 0 THEN {}
     ELSE {<<s>> \o t : s \in SecondTokens, t \in SeqsUpTo(ArgTokens, n - 1)})
Argvs(n) == {<<>>} \cup {<<f>> \o r : f \in FirstTokens, r \in Rests(n)}

\* What the command's implementation can do when its gateway calls it.
CollabReturns == {PyNone, PyInt(1)}
Messages == {"no database for subreddit test"}

----------------------------------------------------------------------------
VARIABLES
    MODULE_DOCSTRINGS,    \* the registry dict
    OLD_COMMAND_ALIASES,  \* the alias dict
    sys_modules,          \* the modules loaded so far
    argv,                 \* main's argument
    pc,                   \* where the run is
    command,              \* main's local
    args,                 \* the namespace parse_args returned
    stdout,               \* what was printed, one entry per print
    stderr,
    result,               \* how main ended
    calls,                \* every handler call: the gateway and its argument
    parse_calls,          \* how often parser.parse_args was called
    collab_ret,           \* what the command's implementation returned
    raised,               \* what the handler raised
    branch,               \* the dispatcher state (1, 2, 3) the run took
    prior                 \* the previous invocation's outcome, SpecPair only

vars ==
    <<MODULE_DOCSTRINGS, OLD_COMMAND_ALIASES, sys_modules, argv, pc, command, args,
      stdout, stderr, result, calls, parse_calls, collab_ret, raised, branch, prior>>

dicts == <<MODULE_DOCSTRINGS, OLD_COMMAND_ALIASES>>
handler_vars == <<calls, collab_ret, raised>>

Running == <<"running">>
Returned(code) == <<"return", code>>
SystemExit(code) == <<"SystemExit", code>>
Raised(exc) == <<"raise", exc>>

\* A process before the package is imported.
Fresh(av) ==
    /\ argv = av
    /\ pc = "import"
    /\ MODULE_DOCSTRINGS = <<>>
    /\ OLD_COMMAND_ALIASES = <<>>
    /\ sys_modules = {}
    /\ command = <<>>
    /\ args = <<>>
    /\ stdout = <<>>
    /\ stderr = <<>>
    /\ result = Running
    /\ calls = <<>>
    /\ parse_calls = 0
    /\ collab_ret = <<>>
    /\ raised = <<>>
    /\ branch = 0

Init ==
    /\ \E av \in Argvs(MaxArgs) : Fresh(av)
    /\ prior = <<>>

\* Lines 1-410: the imports, the dict literals, the help document and the
\* parser.  Only text is manipulated; no gateway is called.
ImportModule ==
    /\ pc = "import"
    /\ sys_modules' = sys_modules \cup ImportedAtLoad
    /\ MODULE_DOCSTRINGS' = MODULE_DOCSTRINGS_literal
    /\ OLD_COMMAND_ALIASES' = OLD_COMMAND_ALIASES_literal
    /\ pc' = "main"
    /\ UNCHANGED <<argv, command, args, stdout, stderr, result, parse_calls,
                   handler_vars, branch, prior>>

\* Lines 415-416.
ResolveCommand ==
    /\ pc = "main"
    /\ command' = dict_get(OLD_COMMAND_ALIASES, lower(listget(argv, 0, tok_empty)),
                           lower(listget(argv, 0, tok_empty)))
    /\ pc' = "registry_check"
    /\ UNCHANGED <<dicts, sys_modules, argv, args, stdout, stderr, result,
                   parse_calls, handler_vars, branch, prior>>

\* Lines 419-425.
GlobalHelp ==
    /\ pc = "registry_check"
    /\ command \notin DOMAIN MODULE_DOCSTRINGS
    /\ stdout' = stdout \o <<DOCSTRING>> \o
                   (IF command = tok_empty THEN <<NoteNoCommand>>
                    ELSE IF command \notin helpstrings
                    THEN <<NoteNotRecognized(command)>>
                    ELSE <<>>)
    /\ result' = Returned(1)
    /\ branch' = 1
    /\ pc' = "done"
    /\ UNCHANGED <<dicts, sys_modules, argv, command, args, stderr, parse_calls,
                   handler_vars, prior>>

\* Line 419, the command is a key of the registry.
CommandFound ==
    /\ pc = "registry_check"
    /\ command \in DOMAIN MODULE_DOCSTRINGS
    /\ pc' = "help_check"
    /\ UNCHANGED <<dicts, sys_modules, argv, command, args, stdout, stderr, result,
                   parse_calls, handler_vars, branch, prior>>

\* Mutant of CommandHelp: the return statement of line 431 is missing.
CommandHelp_fallthrough ==
    /\ pc = "help_check"
    /\ lower(listget(argv, 1, tok_empty)) \in helpstrings
    /\ stdout' = Append(stdout, MODULE_DOCSTRINGS[command])
    /\ branch' = 2
    /\ pc' = "parse"
    /\ UNCHANGED <<dicts, sys_modules, argv, command, args, stderr, result,
                   parse_calls, handler_vars, prior>>

\* Lines 428-431.
CommandHelp ==
    /\ pc = "help_check"
    /\ lower(listget(argv, 1, tok_empty)) \in helpstrings
    /\ stdout' = Append(stdout, MODULE_DOCSTRINGS[command])
    /\ result' = Returned(1)
    /\ branch' = 2
    /\ pc' = "done"
    /\ UNCHANGED <<dicts, sys_modules, argv, command, args, stderr, parse_calls,
                   handler_vars, prior>>

\* Line 429, the second token asks for no help.
NoHelpRequest ==
    /\ pc = "help_check"
    /\ lower(listget(argv, 1, tok_empty)) \notin helpstrings
    /\ branch' = 3
    /\ pc' = "parse"
    /\ UNCHANGED <<dicts, sys_modules, argv, command, args, stdout, stderr, result,
                   parse_calls, handler_vars, prior>>

\* Line 433, parse_args returns a namespace.
ParseArgsReturns ==
    /\ pc = "parse"
    /\ parse_args(argv).status = "ok"
    /\ args' = parse_args(argv).namespace
    /\ parse_calls' = parse_calls + 1
    /\ pc' = "call"
    /\ UNCHANGED <<dicts, sys_modules, argv, command, stdout, stderr, result,
                   handler_vars, branch, prior>>

\* Line 433, parse_args prints and raises SystemExit, which main does not
\* catch.
ParseArgsExits ==
    /\ pc = "parse"
    /\ parse_args(argv).status = "exit"
    /\ LET r == parse_args(argv)
       IN  /\ stdout' = IF r.stream = "stdout" THEN Append(stdout, r.text) ELSE stdout
           /\ stderr' = IF r.stream = "stderr" THEN Append(stderr, r.text) ELSE stderr
           /\ result' = SystemExit(r.code)
    /\ parse_calls' = parse_calls + 1
    /\ pc' = "done"
    /\ UNCHANGED <<dicts, sys_modules, argv, command, args, handler_vars, branch,
                   prior>>

\* Line 435 and the gateway's import statement (302-336): args.func is
\* called with args and imports its module.
InvokeHandler ==
    /\ pc = "call"
    /\ calls' = Append(calls, [func |-> args["func"][2], args |-> args])
    /\ sys_modules' = sys_modules \cup {gateway_module[args["func"][2]]}
    /\ pc' = "handler"
    /\ UNCHANGED <<dicts, argv, command, args, stdout, stderr, result, parse_calls,
                   collab_ret, raised, branch, prior>>

\* Mutant of HandlerReturns: the implementation's value is passed on as
\* main's result.
HandlerReturns_propagate ==
    /\ pc = "handler"
    /\ \E v \in CollabReturns :
          /\ collab_ret' = v
          /\ result' = Returned(IF v = PyNone THEN 0 ELSE v[2])
    /\ pc' = "done"
    /\ UNCHANGED <<dicts, sys_modules, argv, command, args, stdout, stderr, calls,
                   parse_calls, raised, branch, prior>>

\* The implementation returns; the gateway has no return statement, and
\* main returns 0 (line 442).
HandlerReturns ==
    /\ pc = "handler"
    /\ \E v \in CollabReturns : collab_ret' = v
    /\ result' = Returned(0)
    /\ pc' = "done"
    /\ UNCHANGED <<dicts, sys_modules, argv, command, args, stdout, stderr, calls,
                   parse_calls, raised, branch, prior>>

\* Lines 436-440.
HandlerRaisesDatabaseNotFound ==
    /\ pc = "handler"
    /\ \E m \in Messages :
          /\ raised' = <<"DatabaseNotFound", m>>
          /\ stdout' = Append(stdout, <<m, HintLine>>)
    /\ result' = Returned(1)
    /\ pc' = "done"
    /\ UNCHANGED <<dicts, sys_modules, argv, command, args, stderr, calls,
                   parse_calls, collab_ret, branch, prior>>

\* Mutant of HandlerRaisesOther: a blanket except clause.
HandlerRaisesOther_caught ==
    /\ pc = "handler"
    /\ \E m \in Messages :
          /\ raised' = <<"OtherFailure", m>>
          /\ stdout' = Append(stdout, <<m, HintLine>>)
    /\ result' = Returned(1)
    /\ pc' = "done"
    /\ UNCHANGED <<dicts, sys_modules, argv, command, args, stderr, calls,
                   parse_calls, collab_ret, branch, prior>>

\* Any other exception passes through the try statement of lines 434-440.
HandlerRaisesOther ==
    /\ pc = "handler"
    /\ \E m \in Messages :
          /\ raised' = <<"OtherFailure", m>>
          /\ result' = Raised(<<"OtherFailure", m>>)
    /\ pc' = "done"
    /\ UNCHANGED <<dicts, sys_modules, argv, command, args, stdout, stderr, calls,
                   parse_calls, collab_ret, branch, prior>>

Next ==
    \/ ImportModule
    \/ ResolveCommand
    \/ GlobalHelp
    \/ CommandFound
    \/ CommandHelp
    \/ NoHelpRequest
    \/ ParseArgsReturns
    \/ ParseArgsExits
    \/ InvokeHandler
    \/ HandlerReturns
    \/ HandlerRaisesDatabaseNotFound
    \/ HandlerRaisesOther

Spec == Init /\ [][Next]_vars

----------------------------------------------------------------------------
\* Two invocations in a row: the program is started again, as a new
\* process, with the first token respelled (its case changed, or a legacy
\* alias replaced by the name it stands for).
Respellings(t) ==
    {lower(t), upper(t), capitalize(t),
     dict_get(OLD_COMMAND_ALIASES_literal, t, t)} \ {t}

Outcome ==
    [argv |-> argv, command |-> command, branch |-> branch, stdout |-> stdout,
     stderr |-> stderr, result |-> result, calls |-> calls,
     collab_ret |-> collab_ret, raised |-> raised]

Reinvoke ==
    /\ pc = "done"
    /\ prior = <<>>
    /\ argv # <<>>
    /\ \E t \in Respellings(argv[1]) : argv' = [argv EXCEPT ![1] = t]
    /\ prior' = Outcome
    /\ pc' = "import"
    /\ MODULE_DOCSTRINGS' = <<>>
    /\ OLD_COMMAND_ALIASES' = <<>>
    /\ sys_modules' = {}
    /\ command' = <<>>
    /\ args' = <<>>
    /\ stdout' = <<>>
    /\ stderr' = <<>>
    /\ result' = Running
    /\ calls' = <<>>
    /\ parse_calls' = 0
    /\ collab_ret' = <<>>
    /\ raised' = <<>>
    /\ branch' = 0

InitPair ==
    /\ \E av \in Argvs(MaxArgsPair) : Fresh(av)
    /\ prior = <<>>

NextPair == Next \/ Reinvoke

SpecPair == InitPair /\ [][NextPair]_vars

----------------------------------------------------------------------------
\* What the documentation states, spelled out without the dicts of the code.
NineCommands ==
    {tok_breakdown, tok_get_comments, tok_getstyles, tok_getwiki, tok_livestream,
     tok_mergedb, tok_offline_reading, tok_index, tok_get_submissions}
LegacyAliases == {tok_timesearch, tok_commentaugment, tok_redmash}
Canonical(t) ==
    CASE t = tok_timesearch -> tok_get_submissions
      [] t = tok_commentaugment -> tok_get_comments
      [] t = tok_redmash -> tok_index
      [] OTHER -> t
GatewayName(k) ==
    CASE k = tok_breakdown -> "breakdown_gateway"
      [] k = tok_get_comments -> "get_comments_gateway"
      [] k = tok_getstyles -> "getstyles_gateway"
      [] k = tok_getwiki -> "getwiki_gateway"
      [] k = tok_livestream -> "livestream_gateway"
      [] k = tok_mergedb -> "mergedb_gateway"
      [] k = tok_offline_reading -> "offline_reading_gateway"
      [] k = tok_index -> "index_gateway"
      [] k = tok_get_submissions -> "get_submissions_gateway"
HelpWords == {tok_help, dash_h, ddash_help}
\* The first token after lowercasing and alias resolution, the second after
\* lowercasing; an absent token counts as the empty string.
FirstToken == Canonical(lower(listget(argv, 0, tok_empty)))
SecondToken == lower(listget(argv, 1, tok_empty))
AsksHelp == SecondToken \in HelpWords \cup {tok_empty}

\* C1: a first token that is empty or, lowercased and alias-resolved, no
\* registry key ends the run with the global help document alone on stdout,
\* followed by exactly the note of its case (none chosen / a help word: no
\* note / the token named), with no parser call, no handler call, and 1
\* returned.
C1_GlobalHelp ==
    (pc = "done" /\ FirstToken \notin NineCommands) =>
        /\ result = Returned(1)
        /\ parse_calls = 0
        /\ calls = <<>>
        /\ stderr = <<>>
        /\ stdout = <<DOCSTRING>> \o
                      (CASE FirstToken = tok_empty -> <<NoteNoCommand>>
                         [] FirstToken \in HelpWords -> <<>>
                         [] OTHER -> <<NoteNotRecognized(FirstToken)>>)
C1_Witness ==
    /\ pc = "done"
    /\ argv = <<tok_Bogus, dash_r>>
    /\ stdout = <<DOCSTRING, NoteNotRecognized(tok_bogus)>>

\* C2: a registered command followed by nothing or by a help spelling (in
\* any letter case) prints that command's help text and nothing else, calls
\* neither the parser nor a handler, and returns 1.
C2_CommandHelp ==
    (pc = "done" /\ FirstToken \in NineCommands /\ AsksHelp) =>
        /\ result = Returned(1)
        /\ stdout = <<MODULE_DOCSTRINGS[FirstToken]>>
        /\ MODULE_DOCSTRINGS[FirstToken] # DOCSTRING
        /\ stderr = <<>>
        /\ parse_calls = 0
        /\ calls = <<>>
C2_Witness ==
    /\ pc = "done"
    /\ argv = <<tok_get_comments, tok_HELP>>
    /\ stdout = <<"get_comments:">>

\* What C3 expects the handler to receive for ['timesearch', '-r', 'test'].
C3_ExampleArgs ==
    [lower |-> PyStr(tok_update), subreddit |-> PyStr(tok_test),
     username |-> PyNone, upper |-> PyNone, verbose |-> PyBool(FALSE),
     do_supplement |-> PyBool(TRUE), func |-> <<"func", "get_submissions_gateway">>]
C3_HandlerInvoked ==
    /\ parse_calls = 1
    /\ Len(calls) = 1
    /\ calls[1].func = GatewayName(FirstToken)
    /\ calls[1].args = args
    /\ args = parse_args(argv).namespace
    /\ argv = <<tok_timesearch, dash_r, tok_test>> => calls[1].args = C3_ExampleArgs
C3_ParserTable ==
    \A k \in NineCommands :
        \E x \in name_parser_map : x[1] = k /\ x[2].func = GatewayName(k)

\* C3 as stated: every run of a registered command whose second token is
\* present and no help spelling parses argv and invokes the command's
\* handler.
C3_Original ==
    (pc = "done" /\ FirstToken \in NineCommands /\ ~AsksHelp) => C3_HandlerInvoked

\* C3, amended: such a run calls the parser once, on the whole argv; when
\* the parser returns a namespace (it does not end the run with SystemExit),
\* the handler of exactly the resolved command is invoked once with that
\* namespace, defaults applied; for each of the nine registry keys the
\* subparser's func is that command's gateway.
C3_Dispatch ==
    /\ C3_ParserTable
    /\ (pc = "done" /\ FirstToken \in NineCommands /\ ~AsksHelp) =>
          /\ parse_calls = 1
          /\ result[1] # "SystemExit" => C3_HandlerInvoked
C3_Witness ==
    /\ pc = "done"
    /\ argv = <<tok_timesearch, dash_r, tok_test>>
    /\ calls = <<[func |-> "get_submissions_gateway", args |-> C3_ExampleArgs]>>

\* The exit status a returned value stands for: None counts as 0.
ExitCodeOf(v) == IF v = PyNone THEN 0 ELSE v[2]

\* C4 as stated: when the handler completes, main's result is the exit code
\* the handler's work produced.
C4_Original ==
    (pc = "done" /\ calls # <<>> /\ raised = <<>>) =>
        result = Returned(ExitCodeOf(collab_ret))

\* C4, amended: when the handler completes without raising, main returns 0,
\* whatever the command's implementation returned.
C4_ReturnsZero ==
    (pc = "done" /\ calls # <<>> /\ raised = <<>>) =>
        /\ collab_ret \in CollabReturns
        /\ result = Returned(0)
C4_Witness ==
    /\ pc = "done"
    /\ calls # <<>>
    /\ collab_ret = PyInt(1)
    /\ result = Returned(0)

\* C5: DatabaseNotFound raised by the handler is caught: its message and the
\* hint line are printed and 1 is returned; any other failure leaves main as
\* raised, with nothing printed.
C5_DatabaseNotFound ==
    (pc = "done" /\ raised # <<>>) =>
        IF raised[1] = "DatabaseNotFound"
        THEN /\ result = Returned(1)
             /\ stdout = << <<raised[2], HintLine>> >>
        ELSE /\ result = Raised(raised)
             /\ stdout = <<>>
             /\ stderr = <<>>
C5_Witness ==
    /\ pc = "done"
    /\ raised = <<"DatabaseNotFound", "no database for subreddit test">>
    /\ result = Returned(1)

\* C6 as stated: a run that does not end in an unknown failure ends with
\* exit code 0 or 1, and with 1 whenever no handler was run (a usage error
\* or a help request).
C6_ExitCodes ==
    (pc = "done" /\ result[1] # "raise") =>
        /\ result[2] \in {0, 1}
        /\ calls = <<>> => result[2] = 1

\* C7: the package import, the help branches and the parser load no command
\* module; a handler call loads the module of the dispatched command and no
\* other.
C7_LazyLoading ==
    /\ calls = <<>> => sys_modules \cap NineCommands = {}
    /\ calls # <<>> => sys_modules \cap NineCommands = {FirstToken}
C7_Witness ==
    /\ pc = "done"
    /\ listget(argv, 0, tok_empty) = tok_redmash
    /\ sys_modules \cap NineCommands = {tok_index}

\* C8: a handler is called at most once per run, and only from the call
\* step, which follows a successful parse, which follows the help check,
\* which follows the registry check; a run the parser ended called no
\* handler; once built, the registry and the alias table never change.
C8_HandlerOnce ==
    /\ [](Len(calls) <= 1)
    /\ [](calls # <<>> =>
            /\ FirstToken \in NineCommands
            /\ ~AsksHelp
            /\ parse_calls = 1
            /\ calls[1].args = args)
    /\ [](result[1] = "SystemExit" => calls = <<>>)
    /\ [][calls' # calls => pc = "call"]_vars
    /\ [][pc' = "call" => pc = "parse" /\ parse_args(argv).status = "ok"]_vars
    /\ [][pc' = "parse" => pc = "help_check"]_vars
    /\ [][pc' = "help_check" => pc = "registry_check"]_vars
    /\ [][pc \notin {"import", "done"} => UNCHANGED dicts]_vars
    /\ [](pc # "import" => /\ DOMAIN MODULE_DOCSTRINGS = NineCommands
                           /\ DOMAIN OLD_COMMAND_ALIASES = LegacyAliases)
C8_Witness ==
    /\ pc = "done"
    /\ Len(calls) = 1
    /\ parse_calls = 1

\* The same collaborator behaviour in both invocations.
SameHandlerBehaviour ==
    /\ prior.raised = raised
    /\ prior.collab_ret = collab_ret
SameOutcome ==
    /\ prior.command = command
    /\ prior.branch = branch
    /\ prior.calls = calls
    /\ prior.stderr = stderr
    /\ SameHandlerBehaviour =>
          /\ prior.stdout = stdout
          /\ prior.result = result

\* C9: alias resolution maps the three legacy names to their commands and
\* every other token to itself, every alias target is a registry key, and an
\* invocation by a legacy alias ends as the invocation with the alias
\* replaced by its command does: same branch, text, handler call and result.
C9_AliasEquivalence ==
    /\ pc \notin {"import", "main"} =>
          command = Canonical(lower(listget(argv, 0, tok_empty)))
    /\ pc # "import" =>
          \A a \in DOMAIN OLD_COMMAND_ALIASES :
              OLD_COMMAND_ALIASES[a] \in DOMAIN MODULE_DOCSTRINGS
    /\ ( /\ pc = "done"
         /\ prior # <<>>
         /\ prior.argv[1] \in LegacyAliases
         /\ argv = [prior.argv EXCEPT ![1] = Canonical(prior.argv[1])] )
       => SameOutcome
C9_Witness ==
    /\ pc = "done"
    /\ prior # <<>>
    /\ prior.argv = <<tok_timesearch, dash_r, tok_test>>
    /\ argv = <<tok_get_submissions, dash_r, tok_test>>
    /\ calls # <<>>
    /\ prior.calls = calls
    /\ prior.result = result

\* C10 as stated: respelling the first token in another letter case leaves
\* the run's outcome unchanged: the same branch, the same handler call with
\* the same options, the same exit code.
C10_CaseInsensitive ==
    ( /\ pc = "done"
      /\ prior # <<>>
      /\ lower(prior.argv[1]) = lower(argv[1])
      /\ Tail(prior.argv) = Tail(argv) )
    => /\ prior.branch = branch
       /\ prior.calls = calls
       /\ SameHandlerBehaviour => prior.result = result

====
